---- MODULE Spec2Model ----
(***************************************************************************)
(* Model of chatbot/db/scylla_loader.py: ScyllaLoader.multi_ingest, its    *)
(* worker processes, the progress monitor thread and the pure helpers      *)
(* _create_chunks and _generate_insert_statement.                          *)
(*                                                                         *)
(* Calls into the database driver (create_session, session.prepare,        *)
(* execute_concurrent_with_args) are environment calls: each either        *)
(* returns or raises.  Note that _worker calls self.create_session() with  *)
(* none of its three required arguments, so in the program as written the  *)
(* "raises" outcome is the only one; the model keeps both outcomes so that *)
(* the batch loop is covered as well.                                      *)
(***************************************************************************)
EXTENDS Integers, Sequences, FiniteSets, TLC

\* ------------------------------------------------------------------ bounds
MaxN == 3          \* longest dataset
MaxP == 2          \* largest cpu_count()
MaxConc == 2       \* largest concurrency argument
MaxFairN == 2      \* longest dataset of the fair specification

\* ------------------------------------------------------- program constants
MAX_RETRIES == 5
RETRY_DELAY == 1   \* 0.5 s, expressed in half-second units

Workers == 1..MaxP

VARIABLES
  data,             \* multi_ingest argument: list of rows
  process_count,    \* cpu_count()
  concurrency,      \* multi_ingest argument
  cpc,              \* position of the coordinator (multi_ingest)
  event,            \* multiprocessing.Event: is_set()
  eventCreated,     \* Event() has been constructed
  data_chunks,      \* result of _create_chunks
  counter,          \* Value("i", 0).value
  row_count,
  insert_stmt,
  worker_args_list,
  process_list,     \* started processes, by chunk position
  joinIdx,          \* position of the join loop in process_list
  report,           \* what multi_ingest prints at the end
  mpc, last, pbar,  \* monitor thread: position, local last, pbar.n
  wpc,              \* position of each worker process
  wargs,            \* args tuple each worker was started with
  session,          \* per worker: "none" | "open" | "closed"
  batch_data,       \* per worker: converted tuples
  idx,              \* per worker: loop variable i of the batch loop
  attempt,          \* per worker: local attempt
  db,               \* ids of the rows whose insertion an execute call has
                    \* confirmed by returning (what a failed call may have
                    \* written besides is not confirmed and not in db)
  execs,            \* per worker: execute calls made for the current batch
  delays,           \* per worker: sleeps taken for the current batch
  sets,             \* per worker: calls of event.set()
  execFailed,       \* some execute_concurrent_with_args call has raised
  counted           \* per worker: rows it added to the counter

vars == <<data, process_count, concurrency, cpc, event, eventCreated,
          data_chunks, counter, row_count, insert_stmt, worker_args_list,
          process_list, joinIdx, report, mpc, last, pbar, wpc, wargs,
          session, batch_data, idx, attempt, db, execs, delays, sets,
          execFailed, counted>>

inputVars == <<data, process_count, concurrency>>
coordVars == <<cpc, eventCreated, data_chunks, row_count, insert_stmt,
               worker_args_list, process_list, joinIdx, report>>
monVars == <<mpc, last, pbar>>
workerVars == <<wpc, wargs, session, batch_data, idx, attempt, execs,
                delays, sets, execFailed, counted>>

\* ------------------------------------------------------------------- rows
\* A dict row is an ordered list of (key, value) items; the value of key k
\* in row i is <<i, k>>.  A non-dict row has no items at all.
DictRow(i, ks) ==
  [id |-> i, isdict |-> TRUE,
   items |-> [j \in 1..Len(ks) |-> [k |-> ks[j], v |-> <<i, ks[j]>>]]]

NonDictRow(i) == [id |-> i, isdict |-> FALSE, items |-> <<>>]

Variants == {"uniform", "reordered", "missing", "nondict", "nondict_first"}

\* Datasets of n rows: every row has keys a, b in that order, except that the
\* last row (or the first, for nondict_first) deviates as the variant says.
Dataset(n, variant) ==
  [i \in 1..n |->
     IF variant = "nondict_first" /\ i = 1 THEN NonDictRow(i)
     ELSE IF i = n /\ n >= 2 /\ variant = "reordered"
       THEN DictRow(i, <<"b", "a">>)
     ELSE IF i = n /\ n >= 2 /\ variant = "missing"
       THEN DictRow(i, <<"a">>)
     ELSE IF i = n /\ n >= 2 /\ variant = "nondict"
       THEN NonDictRow(i)
     ELSE DictRow(i, <<"a", "b">>)]

Datasets ==
  {Dataset(n, v) : n \in 0..MaxN, v \in Variants}

Keys(row) == [j \in 1..Len(row.items) |-> row.items[j].k]
Values(row) == [j \in 1..Len(row.items) |-> row.items[j].v]

Min(a, b) == IF a < b THEN a ELSE b

RECURSIVE Pow2(_)
Pow2(n) == IF n = 0 THEN 1 ELSE 2 * Pow2(n - 1)

\* Python slice s[lo:hi] with 0-based lo, hi (hi clipped to len(s)).
Slice(s, lo, hi) ==
  LET h == Min(hi, Len(s))
  IN  IF lo >= h THEN <<>> ELSE [j \in 1..(h - lo) |-> s[lo + j]]

\* --------------------------------------------------------- pure functions
\* _create_chunks: the loop over range(process_count), carrying start_idx.
RECURSIVE ChunkLoop(_, _, _, _, _, _)
ChunkLoop(d, pc, chunk_size, remainder, i, start_idx) ==
  IF i >= pc THEN <<>>
  ELSE LET end_idx == start_idx + chunk_size + (IF i < remainder THEN 1 ELSE 0)
       IN  <<Slice(d, start_idx, end_idx)>>
             \o ChunkLoop(d, pc, chunk_size, remainder, i + 1, end_idx)

\* _create_chunks with the remainder left out of end_idx.
CreateChunksNoRemainder(d, pc) ==
  ChunkLoop(d, pc, Len(d) \div pc, 0, 0, 0)

CreateChunks(d, pc) ==
  ChunkLoop(d, pc, Len(d) \div pc, Len(d) % pc, 0, 0)

\* _generate_insert_statement: the statement as its column list and its
\* placeholder list.
GenerateInsertStatement(keyspace, table, columns) ==
  [keyspace |-> keyspace, table |-> table,
   column_names |-> columns,
   placeholders |-> [j \in 1..Len(columns) |-> "?"]]

\* ------------------------------------------------------------------- init
NoArgs == [worker_id |-> -1, concurrency |-> 0, data_chunk |-> <<>>]
NoStmt == [keyspace |-> "", table |-> "", column_names |-> <<>>,
           placeholders |-> <<>>]
NoReport == [aborted |-> FALSE, committed_rows |-> -1, total_rows |-> -1]

InitRest ==
  /\ cpc = "call"
  /\ event = FALSE
  /\ eventCreated = FALSE
  /\ data_chunks = <<>>
  /\ counter = 0
  /\ row_count = 0
  /\ insert_stmt = NoStmt
  /\ worker_args_list = <<>>
  /\ process_list = <<>>
  /\ joinIdx = 1
  /\ report = NoReport
  /\ mpc = "idle"
  /\ last = 0
  /\ pbar = 0
  /\ wpc = [w \in Workers |-> "idle"]
  /\ wargs = [w \in Workers |-> NoArgs]
  /\ session = [w \in Workers |-> "none"]
  /\ batch_data = [w \in Workers |-> <<>>]
  /\ idx = [w \in Workers |-> 0]
  /\ attempt = [w \in Workers |-> 0]
  /\ db = {}
  /\ execs = [w \in Workers |-> 0]
  /\ delays = [w \in Workers |-> <<>>]
  /\ sets = [w \in Workers |-> 0]
  /\ execFailed = FALSE
  /\ counted = [w \in Workers |-> 0]

Init ==
  /\ data \in Datasets
  /\ process_count \in 1..MaxP
  /\ concurrency \in 1..MaxConc
  /\ InitRest

\* ------------------------------------------------------------ coordinator
\* multi_ingest, the argument check (data is always a list here): an empty
\* list or a first element that is not a dict raises ValueError.
Validate ==
  /\ cpc = "call"
  /\ cpc' = IF data = <<>> \/ ~data[1].isdict THEN "raised" ELSE "setup"
  /\ UNCHANGED <<inputVars, event, eventCreated, data_chunks, counter,
                 row_count, insert_stmt, worker_args_list, process_list,
                 joinIdx, report, monVars, workerVars, db>>

\* The worker_args loop without its "if chunk:" test.
RECURSIVE ArgsLoopNoFilter(_, _, _)
ArgsLoopNoFilter(chunks, conc, i) ==
  IF i > Len(chunks) THEN <<>>
  ELSE <<[worker_id |-> i - 1, concurrency |-> conc,
          data_chunk |-> chunks[i]]>>
       \o ArgsLoopNoFilter(chunks, conc, i + 1)

\* worker_args_list: one entry per non-empty chunk, in chunk order.
RECURSIVE ArgsLoop(_, _, _)
ArgsLoop(chunks, conc, i) ==
  IF i > Len(chunks) THEN <<>>
  ELSE (IF chunks[i] # <<>>
          THEN <<[worker_id |-> i - 1, concurrency |-> conc,
                  data_chunk |-> chunks[i]]>>
          ELSE <<>>)
       \o ArgsLoop(chunks, conc, i + 1)

\* multi_ingest from Event() to the end of the worker_args loop; the monitor
\* thread is started on the way.
Setup ==
  /\ cpc = "setup"
  /\ event' = FALSE
  /\ eventCreated' = TRUE
  /\ data_chunks' = CreateChunks(data, process_count)
  /\ counter' = 0
  /\ row_count' = Len(data)
  /\ mpc' = "test"
  /\ last' = 0
  /\ pbar' = 0
  /\ insert_stmt' = GenerateInsertStatement("ks", "tbl", Keys(data[1]))
  /\ worker_args_list' = ArgsLoop(data_chunks', concurrency, 1)
  /\ cpc' = "spawn"
  /\ UNCHANGED <<inputVars, process_list, joinIdx, report, workerVars, db>>

\* One iteration of the loop that starts the processes.
Spawn ==
  /\ cpc = "spawn"
  /\ Len(process_list) < Len(worker_args_list)
  /\ LET a == worker_args_list[Len(process_list) + 1]
         w == a.worker_id + 1
     IN  /\ wpc' = [wpc EXCEPT ![w] = "start"]
         /\ wargs' = [wargs EXCEPT ![w] = a]
         /\ process_list' = Append(process_list, w)
  /\ cpc' = IF Len(process_list') = Len(worker_args_list)
              THEN "join" ELSE "spawn"
  /\ UNCHANGED <<inputVars, event, eventCreated, data_chunks, counter,
                 row_count, insert_stmt, worker_args_list, joinIdx, report,
                 monVars, session, batch_data, idx, attempt, execs, delays,
                 sets, execFailed, counted, db>>

\* A join that only returns for a worker that ran to the end of its chunk.
TerminatedOnSuccessOnly(w) == wpc[w] = "done"

\* p.join() returns once the process has ended, however it ended.
Terminated(w) == wpc[w] \in {"done", "aborted", "crashed"}

\* One iteration of the loop that joins the processes.
Join ==
  /\ cpc = "join"
  /\ joinIdx <= Len(process_list)
  /\ Terminated(process_list[joinIdx])
  /\ joinIdx' = joinIdx + 1
  /\ cpc' = IF joinIdx' > Len(process_list) THEN "stop" ELSE "join"
  /\ UNCHANGED <<inputVars, event, eventCreated, data_chunks, counter,
                 row_count, insert_stmt, worker_args_list, process_list,
                 report, monVars, workerVars, db>>

\* Clearing the event after the joins instead of setting it.
StopMonitorClears ==
  /\ cpc = "stop"
  /\ event' = FALSE
  /\ cpc' = "joinmon"
  /\ UNCHANGED <<inputVars, eventCreated, data_chunks, counter, row_count,
                 insert_stmt, worker_args_list, process_list, joinIdx,
                 report, monVars, workerVars, db>>

\* event.set() after the joins.
StopMonitor ==
  /\ cpc = "stop"
  /\ event' = TRUE
  /\ cpc' = "joinmon"
  /\ UNCHANGED <<inputVars, eventCreated, data_chunks, counter, row_count,
                 insert_stmt, worker_args_list, process_list, joinIdx,
                 report, monVars, workerVars, db>>

\* progress_thread.join(timeout=1): returns when the thread has ended or
\* when the second is over, whichever comes first.
JoinMonitor ==
  /\ cpc = "joinmon"
  /\ cpc' = "report"
  /\ UNCHANGED <<inputVars, event, eventCreated, data_chunks, counter,
                 row_count, insert_stmt, worker_args_list, process_list,
                 joinIdx, report, monVars, workerVars, db>>

\* The final print with its comparison turned round.
ReportFlipped ==
  /\ cpc = "report"
  /\ report' = IF counter > row_count
                THEN [aborted |-> TRUE, committed_rows |-> counter,
                      total_rows |-> row_count]
                ELSE [aborted |-> FALSE, committed_rows |-> row_count,
                      total_rows |-> row_count]
  /\ cpc' = "done"
  /\ UNCHANGED <<inputVars, event, eventCreated, data_chunks, counter,
                 row_count, insert_stmt, worker_args_list, process_list,
                 joinIdx, monVars, workerVars, db>>

\* The final print: "Aborted ... Processed counter/row_count" or "Done
\* running row_count operations".
Report ==
  /\ cpc = "report"
  /\ report' = IF counter < row_count
                THEN [aborted |-> TRUE, committed_rows |-> counter,
                      total_rows |-> row_count]
                ELSE [aborted |-> FALSE, committed_rows |-> row_count,
                      total_rows |-> row_count]
  /\ cpc' = "done"
  /\ UNCHANGED <<inputVars, event, eventCreated, data_chunks, counter,
                 row_count, insert_stmt, worker_args_list, process_list,
                 joinIdx, monVars, workerVars, db>>

Coordinator ==
  Validate \/ Setup \/ Spawn \/ Join \/ StopMonitor \/ JoinMonitor \/ Report

\* ---------------------------------------------------------------- monitor
\* The while condition of monitor(); pbar.close() when it is false.
MonitorTest ==
  /\ mpc = "test"
  /\ mpc' = IF last < row_count /\ ~event THEN "read" ELSE "closed"
  /\ UNCHANGED <<inputVars, coordVars, event, counter, last, pbar,
                 workerVars, db>>

\* The loop body: read the counter under its lock, then update or sleep.
MonitorRead ==
  /\ mpc = "read"
  /\ LET current == counter
     IN  IF current > last
           THEN /\ pbar' = pbar + (current - last)
                /\ last' = current
           ELSE UNCHANGED <<pbar, last>>
  /\ mpc' = "test"
  /\ UNCHANGED <<inputVars, coordVars, event, counter, workerVars, db>>

Monitor == MonitorTest \/ MonitorRead

\* ----------------------------------------------------------------- worker
\* _worker up to session = self.create_session().  The cpu_affinity block
\* swallows its exceptions and changes nothing the loader reads.  The call
\* returns a session or raises; a raise ends the process.
WorkerCreateSession(w) ==
  /\ wpc[w] = "start"
  /\ \E ok \in BOOLEAN :
       IF ok
         THEN /\ session' = [session EXCEPT ![w] = "open"]
              /\ wpc' = [wpc EXCEPT ![w] = "prepare"]
         ELSE /\ wpc' = [wpc EXCEPT ![w] = "crashed"]
              /\ UNCHANGED session
  /\ UNCHANGED <<inputVars, coordVars, monVars, event, counter, wargs,
                 batch_data, idx, attempt, execs, delays, sets, execFailed,
                 counted, db>>

\* row_tuple = tuple(item.values()) for one row.
RowTuple(item) == Values(item)

\* Head of "for i in range(0, len(batch_data), batch_size)" reached with
\* loop variable i over n tuples: take the next batch with attempt = 0, or
\* leave the loop and shut the session down.
LoopHead(w, i, n) ==
  /\ idx' = [idx EXCEPT ![w] = i]
  /\ IF i < n
       THEN /\ attempt' = [attempt EXCEPT ![w] = 0]
            /\ execs' = [execs EXCEPT ![w] = 0]
            /\ delays' = [delays EXCEPT ![w] = <<>>]
            /\ wpc' = [wpc EXCEPT ![w] = "exec"]
            /\ UNCHANGED session
       ELSE /\ session' = [session EXCEPT ![w] = "closed"]
            /\ wpc' = [wpc EXCEPT ![w] = "done"]
            /\ UNCHANGED <<attempt, execs, delays>>

\* From prepared_stmt = session.prepare(insert_stmt) to the first evaluation
\* of the batch loop's head.  prepare returns or raises, and item.values()
\* raises on a row that is not a dict; nothing catches either exception, so
\* the process then ends with its session open.
WorkerPrepare(w) ==
  /\ wpc[w] = "prepare"
  /\ LET chunk == wargs[w].data_chunk
     IN  \E prepared \in BOOLEAN :
           IF ~prepared \/ \E j \in 1..Len(chunk) : ~chunk[j].isdict
             THEN /\ wpc' = [wpc EXCEPT ![w] = "crashed"]
                  /\ UNCHANGED <<batch_data, idx, session, attempt, execs,
                                 delays>>
             ELSE /\ batch_data' = [batch_data EXCEPT
                       ![w] = [j \in 1..Len(chunk) |-> RowTuple(chunk[j])]]
                  /\ LoopHead(w, 0, Len(chunk))
  /\ UNCHANGED <<inputVars, coordVars, monVars, event, counter, wargs,
                 sets, execFailed, counted, db>>

batch_size(w) == wargs[w].concurrency

\* batch = batch_data[i : i + batch_size]
Batch(w) == Slice(batch_data[w], idx[w], idx[w] + batch_size(w))

\* Ids of the dataset rows the current batch holds.
BatchRows(w) ==
  {wargs[w].data_chunk[idx[w] + j].id : j \in 1..Len(Batch(w))}

\* A successful batch that goes on to the next one without being counted.
WorkerExecOkUncounted(w) ==
  /\ wpc[w] = "exec"
  /\ attempt[w] < MAX_RETRIES
  /\ db' = db \cup BatchRows(w)
  /\ LoopHead(w, idx[w] + batch_size(w), Len(batch_data[w]))
  /\ UNCHANGED <<inputVars, coordVars, monVars, event, counter, wargs,
                 batch_data, sets, execFailed, counted>>

\* execute_concurrent_with_args returns: every row of the batch is written.
\* The while loop is left by the break.
WorkerExecOk(w) ==
  /\ wpc[w] = "exec"
  /\ attempt[w] < MAX_RETRIES
  /\ db' = db \cup BatchRows(w)
  /\ execs' = [execs EXCEPT ![w] = @ + 1]
  /\ wpc' = [wpc EXCEPT ![w] = "count"]
  /\ UNCHANGED <<inputVars, coordVars, monVars, event, counter, wargs,
                 session, batch_data, idx, attempt, delays, sets,
                 execFailed, counted>>

\* Giving up one attempt too early.
ExhaustedEarly(a) == a >= MAX_RETRIES - 1

\* if attempt >= self.MAX_RETRIES
Exhausted(a) == a >= MAX_RETRIES

\* A backoff whose exponent starts at 0.
DelayFromZero(a) == RETRY_DELAY * Pow2(a - 1)

\* self.RETRY_DELAY * (2**attempt), in half-second units
Delay(a) == RETRY_DELAY * Pow2(a)

\* On giving up, going on with the next batch instead of returning.
WorkerExecFailSkipsBatch(w) ==
  /\ wpc[w] = "exec"
  /\ attempt[w] < MAX_RETRIES
  /\ execFailed' = TRUE
  /\ IF Exhausted(attempt[w] + 1)
       THEN /\ event' = TRUE
            /\ sets' = [sets EXCEPT ![w] = @ + 1]
            /\ LoopHead(w, idx[w] + batch_size(w), Len(batch_data[w]))
       ELSE /\ execs' = [execs EXCEPT ![w] = @ + 1]
            /\ attempt' = [attempt EXCEPT ![w] = @ + 1]
            /\ delays' = [delays EXCEPT ![w] = Append(@, Delay(attempt'[w]))]
            /\ UNCHANGED <<event, sets, session, wpc, idx>>
  /\ UNCHANGED <<inputVars, coordVars, monVars, counter, wargs, batch_data,
                 counted, db>>

\* execute_concurrent_with_args raises, confirming no row: the except block,
\* including the sleep before the next attempt.
WorkerExecFail(w) ==
  /\ wpc[w] = "exec"
  /\ attempt[w] < MAX_RETRIES
  /\ execs' = [execs EXCEPT ![w] = @ + 1]
  /\ execFailed' = TRUE
  /\ attempt' = [attempt EXCEPT ![w] = @ + 1]
  /\ IF Exhausted(attempt'[w])
       THEN /\ event' = TRUE
            /\ sets' = [sets EXCEPT ![w] = @ + 1]
            /\ session' = [session EXCEPT ![w] = "closed"]
            /\ wpc' = [wpc EXCEPT ![w] = "aborted"]
            /\ UNCHANGED delays
       ELSE /\ delays' = [delays EXCEPT ![w] = Append(@, Delay(attempt'[w]))]
            /\ UNCHANGED <<event, sets, session, wpc>>
  /\ UNCHANGED <<inputVars, coordVars, monVars, counter, wargs, batch_data,
                 idx, counted, db>>

\* The counter update adding batch_size instead of len(batch).
WorkerCountBatchSize(w) ==
  /\ wpc[w] = "count"
  /\ counter' = counter + batch_size(w)
  /\ counted' = [counted EXCEPT ![w] = @ + batch_size(w)]
  /\ LoopHead(w, idx[w] + batch_size(w), Len(batch_data[w]))
  /\ UNCHANGED <<inputVars, coordVars, monVars, event, wargs, batch_data,
                 sets, execFailed, db>>

\* The counter overwritten with the worker's own tally.
WorkerCountOwnTally(w) ==
  /\ wpc[w] = "count"
  /\ counter' = counted[w] + Len(Batch(w))
  /\ counted' = [counted EXCEPT ![w] = @ + Len(Batch(w))]
  /\ LoopHead(w, idx[w] + batch_size(w), Len(batch_data[w]))
  /\ UNCHANGED <<inputVars, coordVars, monVars, event, wargs, batch_data,
                 sets, execFailed, db>>

\* with counter.get_lock(): counter.value += len(batch); then the loop head
\* with the next i.
WorkerCount(w) ==
  /\ wpc[w] = "count"
  /\ counter' = counter + Len(Batch(w))
  /\ counted' = [counted EXCEPT ![w] = @ + Len(Batch(w))]
  /\ LoopHead(w, idx[w] + batch_size(w), Len(batch_data[w]))
  /\ UNCHANGED <<inputVars, coordVars, monVars, event, wargs, batch_data,
                 sets, execFailed, db>>

Worker(w) ==
  \/ WorkerCreateSession(w)
  \/ WorkerPrepare(w)
  \/ WorkerExecOk(w)
  \/ WorkerExecFail(w)
  \/ WorkerCount(w)

\* ---------------------------------------------------------- specification
Next ==
  \/ Coordinator
  \/ Monitor
  \/ \E w \in Workers : Worker(w)

Spec == Init /\ [][Next]_vars

\* Termination does not depend on the keys of the rows: the fair
\* specification takes the datasets whose rows differ only in being a dict.
FairInit ==
  /\ data \in {Dataset(n, v) :
                  n \in 0..MaxFairN, v \in {"uniform", "nondict"}}
  /\ process_count \in 1..MaxP
  /\ concurrency \in 1..MaxConc
  /\ InitRest

\* The operating system schedules the coordinator, the monitor thread and
\* every worker process; driver calls and sleeps return.
FairSpec ==
  /\ FairInit
  /\ [][Next]_vars
  /\ WF_vars(Coordinator)
  /\ WF_vars(Monitor)
  /\ \A w \in Workers : WF_vars(Worker(w))

\* Direct calls of _create_chunks, which accepts an empty dataset too.
ChunkCall ==
  /\ cpc = "call"
  /\ data_chunks' = CreateChunks(data, process_count)
  /\ cpc' = "chunked"
  /\ UNCHANGED <<inputVars, event, eventCreated, counter, row_count,
                 insert_stmt, worker_args_list, process_list, joinIdx,
                 report, monVars, workerVars, db>>

ChunkSpec == Init /\ [][ChunkCall]_vars

\* ------------------------------------------------------------- properties
Returned == cpc = "done"

Ids(rows) == {rows[j].id : j \in 1..Len(rows)}

RECURSIVE Flatten(_)
Flatten(ss) == IF ss = <<>> THEN <<>> ELSE Head(ss) \o Flatten(Tail(ss))

StrictlyIncreasing(s) == \A j \in 1..(Len(s) - 1) : s[j] < s[j + 1]

\* C1: when no batch execution has ever failed and multi_ingest has
\* returned, the counter equals the dataset length and the run is not
\* reported as aborted.
C1_SuccessWhenNoBatchFails ==
  (Returned /\ ~execFailed) =>
     (counter = Len(data) /\ ~report.aborted)

\* C2: a batch whose every attempt fails is executed exactly MAX_RETRIES
\* times, the sleeps between its attempts grow strictly, and its worker then
\* sets the event exactly once; the event is set whatever the number of
\* workers that set it.
C2_RetryBound ==
  \A w \in Workers :
     /\ wpc[w] = "exec" =>
          /\ execs[w] = attempt[w]
          /\ execs[w] < MAX_RETRIES
          /\ Len(delays[w]) = execs[w]
          /\ sets[w] = 0
     /\ wpc[w] = "aborted" =>
          /\ execs[w] = MAX_RETRIES
          /\ Len(delays[w]) = MAX_RETRIES - 1
          /\ StrictlyIncreasing(delays[w])
          /\ sets[w] = 1
          /\ event
     /\ wpc[w] # "aborted" => sets[w] = 0

C2_Witness ==
  \E w1, w2 \in Workers :
     w1 # w2 /\ wpc[w1] = "aborted" /\ wpc[w2] = "aborted" /\ event

\* Worker w passes the head of its batch loop and takes a batch.
StartsBatch(w) ==
  /\ wpc[w] \in {"prepare", "count"}
  /\ wpc'[w] = "exec"

\* C3: a worker that comes to the head of its batch loop while the event is
\* set starts no batch there (a batch it has already executed may still be
\* counted).
C3_AbortPropagation ==
  [][\A w \in Workers : event => ~StartsBatch(w)]_vars

\* C4: when a worker has given up on its first batch, so that every batch
\* it ran failed permanently, the final report is an abort and states fewer
\* committed rows than total rows.
C4_AbortReport ==
  (Returned /\ \E w \in Workers : wpc[w] = "aborted" /\ counted[w] = 0) =>
     (report.aborted /\ report.committed_rows < report.total_rows)

C4_Witness ==
  /\ Returned
  /\ \E w1, w2 \in Workers :
       /\ wpc[w1] = "aborted" /\ counted[w1] = 0
       /\ wpc[w2] = "done" /\ counted[w2] > 0

\* C5: multi_ingest ends (it returns or raises), and once the event is set
\* the monitor thread ends too.
C5_Terminates ==
  /\ <>(cpc \in {"done", "raised"})
  /\ [](event => <>(mpc = "closed"))

C5_Witness == Returned /\ mpc # "closed"

\* C6: _create_chunks returns process_count chunks whose concatenation is the
\* dataset, the first len % process_count of them one row longer than
\* len // process_count, the others exactly that long.
C6_ChunksPartition ==
  cpc = "chunked" =>
     /\ Len(data_chunks) = process_count
     /\ Flatten(data_chunks) = data
     /\ \A i \in 1..Len(data_chunks) :
          Len(data_chunks[i]) =
            (Len(data) \div process_count)
              + (IF i <= Len(data) % process_count THEN 1 ELSE 0)

C6_Witness ==
  /\ cpc = "chunked"
  /\ Len(data) > process_count
  /\ Len(data) % process_count # 0

\* C7: the counter never decreases, and neither the counter nor the share
\* of it that one worker has added exceeds the number of rows whose
\* insertion has been confirmed (in the whole dataset, in the worker's
\* chunk): a batch that ran out of retries is never counted.
C7_CounterBehindDb ==
  /\ [](counter <= Cardinality(db))
  /\ [](\A w \in Workers :
          counted[w] <= Cardinality(db \cap Ids(wargs[w].data_chunk)))
  /\ [][counter' >= counter]_vars

C7_Witness ==
  /\ \A w \in Workers : wpc[w] = "idle" \/ Terminated(w)
  /\ \E w \in Workers : wpc[w] = "aborted" /\ counted[w] > 0
  /\ counter = Cardinality(db)
  /\ counter < row_count

\* Some row's key set differs from the first row's.
NonUniform(d) ==
  /\ d # <<>>
  /\ \E i \in 1..Len(d) :
       {Keys(d[i])[j] : j \in 1..Len(Keys(d[i]))}
         # {Keys(d[1])[j] : j \in 1..Len(Keys(d[1]))}

\* C8: on a dataset with non-uniform keys multi_ingest never gets past its
\* argument check: no monitor, no worker, counter and event untouched,
\* nothing written.
C8_FailFastOnNonUniform ==
  NonUniform(data) =>
     /\ cpc \in {"call", "raised"}
     /\ mpc = "idle"
     /\ \A w \in Workers : wpc[w] = "idle"
     /\ ~eventCreated /\ ~event /\ counter = 0 /\ db = {}

AllSpawned == cpc \in {"join", "stop", "joinmon", "report", "done"}

\* C9: only non-empty chunks get a worker; once the start loop is over there
\* are min(N, P) workers and every row is in the chunk of exactly one.
C9_WorkersPerNonEmptyChunk ==
  /\ \A j \in 1..Len(process_list) :
       /\ wargs[process_list[j]].data_chunk # <<>>
       /\ \A k \in 1..Len(process_list) :
            process_list[j] = process_list[k] => j = k
  /\ AllSpawned =>
       /\ Len(process_list) = Min(Len(data), process_count)
       /\ \A i \in 1..Len(data) :
            Cardinality({j \in 1..Len(process_list) :
               data[i].id \in Ids(wargs[process_list[j]].data_chunk)}) = 1
       /\ \A w \in Workers :
            wpc[w] # "idle" <=> \E j \in 1..Len(process_list) :
                                    process_list[j] = w

C9_Witness ==
  /\ cpc = "join"
  /\ process_count > Len(data)
  /\ Len(process_list) = Len(data)

\* C10: no worker that has ended holds an open session.
C10_SessionClosedOnExit ==
  \A w \in Workers : Terminated(w) => session[w] # "open"

AllJoined ==
  /\ cpc \in {"stop", "joinmon", "report", "done"}
  /\ \A j \in 1..Len(process_list) : Terminated(process_list[j])

\* Worker w takes the step on which its last attempt fails.
GivesUp(w) ==
  /\ wpc[w] = "exec"
  /\ execs[w] = MAX_RETRIES - 1
  /\ execs'[w] = MAX_RETRIES
  /\ wpc'[w] = "aborted"

\* C11: the event is unset until the workers are started; a step sets it
\* only when a worker's last attempt fails or when the coordinator has
\* joined every worker; no step clears it.
C11_EventSetOnceForGood ==
  /\ [](cpc \in {"call", "setup", "raised"} => ~event)
  /\ [][(~event /\ event') =>
          \/ \E w \in Workers : GivesUp(w)
          \/ cpc = "stop" /\ AllJoined]_vars
  /\ [][event => event']_vars

C11_Witness ==
  /\ event
  /\ cpc = "joinmon"
  /\ \E w \in Workers : wpc[w] = "aborted"

AllWorkersEnded == \A w \in Workers : wpc[w] = "idle" \/ Terminated(w)

\* C12: what the monitor has reported never decreases and never exceeds the
\* counter, and a closed monitor has reported the whole counter once every
\* worker has ended.
C12_MonitorReportsFinal ==
  /\ [](pbar <= counter)
  /\ [][pbar' >= pbar]_vars
  /\ []((mpc = "closed" /\ AllJoined) => pbar = counter)

\* The value row has for key k.
Lookup(row, k) ==
  LET j == CHOOSE j \in 1..Len(row.items) : row.items[j].k = k
  IN  row.items[j].v

KeySet(row) == {row.items[j].k : j \in 1..Len(row.items)}

\* C13: the tuple of a row that has the first row's key set lists the row's
\* values in the order of the statement's columns.
C13_TupleInColumnOrder ==
  \A w \in Workers :
     wpc[w] \in {"exec", "count", "done", "aborted"} =>
        \A j \in 1..Len(wargs[w].data_chunk) :
           LET row == wargs[w].data_chunk[j]
               cols == insert_stmt.column_names
           IN  KeySet(row) = KeySet(data[1]) =>
                 batch_data[w][j] =
                   [c \in 1..Len(cols) |-> Lookup(row, cols[c])]

\* Ids of the rows of w's chunk before position i (0-based, exclusive).
RowsBefore(w, i) ==
  {wargs[w].data_chunk[j].id : j \in 1..Min(i, Len(wargs[w].data_chunk))}

\* Ids of the rows of w's chunk from position i (0-based) on.
RowsFrom(w, i) ==
  {wargs[w].data_chunk[j].id : j \in (i + 1)..Len(wargs[w].data_chunk)}

\* C14: while a worker attempts a batch, every earlier batch of its chunk has
\* succeeded and has been counted, this batch has not succeeded before, and
\* no later row has been touched; the loop variable never goes back.
C14_BatchesInChunkOrder ==
  /\ [](\A w \in Workers :
          wpc[w] = "exec" =>
             /\ RowsBefore(w, idx[w]) \subseteq db
             /\ counted[w] = idx[w]
             /\ RowsFrom(w, idx[w]) \cap db = {})
  /\ [][\A w \in Workers : idx'[w] >= idx[w]]_vars

C14_Witness ==
  \E w \in Workers : wpc[w] = "exec" /\ idx[w] > 0 /\ attempt[w] > 0

\* C15: a worker that has set the event has ended on the spot: it has counted
\* the batches before the failed one only, no row of the failed batch or of
\* a later one is confirmed, those rows are in no other worker's chunk, and
\* the worker takes no further step.
C15_AbortedWorkerStops ==
  /\ [](\A w \in Workers :
          sets[w] > 0 =>
             /\ wpc[w] = "aborted"
             /\ counted[w] = idx[w]
             /\ RowsFrom(w, idx[w]) \cap db = {}
             /\ \A w2 \in Workers \ {w} :
                  RowsFrom(w, idx[w]) \cap Ids(wargs[w2].data_chunk) = {})
  /\ [][\A w \in Workers :
          sets[w] > 0 =>
             /\ wpc'[w] = wpc[w] /\ idx'[w] = idx[w]
             /\ counted'[w] = counted[w] /\ execs'[w] = execs[w]]_vars

C15_Witness ==
  /\ Returned
  /\ \E w1, w2 \in Workers :
       /\ sets[w1] > 0
       /\ idx[w1] + Len(Batch(w1)) < Len(wargs[w1].data_chunk)
       /\ wpc[w2] = "done" /\ counted[w2] > 0

\* C16: the sleeps a worker has taken for its current batch are 2, 4, 8, 16
\* half-seconds, one after each failed attempt but the MAX_RETRIES-th.
C16_BackoffDelays ==
  \A w \in Workers :
     /\ \A k \in 1..Len(delays[w]) : delays[w][k] = <<2, 4, 8, 16>>[k]
     /\ wpc[w] = "exec" => Len(delays[w]) = attempt[w]
     /\ wpc[w] = "aborted" =>
          /\ attempt[w] = MAX_RETRIES
          /\ Len(delays[w]) = MAX_RETRIES - 1

C16_Witness ==
  \E w \in Workers : wpc[w] = "aborted" /\ delays[w] = <<2, 4, 8, 16>>

RECURSIVE SumCounted(_)
SumCounted(ws) ==
  IF ws = {} THEN 0
  ELSE LET w == CHOOSE x \in ws : TRUE
       IN  counted[w] + SumCounted(ws \ {w})

\* C17: once every worker has ended the counter is the number of rows of the
\* batches that succeeded, which is the sum of what each worker added, and
\* no step of the monitor changes the counter.
C17_NoLostIncrement ==
  /\ []((AllSpawned /\ AllWorkersEnded) =>
          /\ counter = Cardinality(db)
          /\ counter = SumCounted(Workers))
  /\ [][mpc' # mpc => counter' = counter]_vars

C17_Witness ==
  /\ AllSpawned /\ AllWorkersEnded
  /\ \E w1, w2 \in Workers :
       w1 # w2 /\ counted[w1] > 0 /\ counted[w2] > 0

\* C18: the batch a worker holds starts at a multiple of the concurrency, is
\* the next 1..concurrency rows of its chunk and is shorter than the
\* concurrency only at the end of the chunk; a worker that is done has
\* counted every row of its chunk once, and the counter never exceeds the
\* dataset length.
C18_BatchesPartitionChunk ==
  /\ counter <= Len(data)
  /\ \A w \in Workers :
       /\ counted[w] <= Len(wargs[w].data_chunk)
       /\ wpc[w] = "done" => counted[w] = Len(wargs[w].data_chunk)
       /\ wpc[w] \in {"exec", "count"} =>
            LET c == wargs[w].concurrency
                L == Len(batch_data[w])
            IN  /\ idx[w] % c = 0
                /\ Len(Batch(w)) = Min(c, L - idx[w])
                /\ Len(Batch(w)) >= 1
                /\ \A j \in 1..Len(Batch(w)) :
                     Batch(w)[j] = batch_data[w][idx[w] + j]
                /\ counted[w] = idx[w]

C18_Witness ==
  \E w \in Workers :
     /\ wpc[w] = "count"
     /\ idx[w] > 0
     /\ Len(Batch(w)) < wargs[w].concurrency

====
